---- MODULE Spec2Model ----
(***************************************************************************)
(* Organization Management API (FastAPI + MongoDB): tenant lifecycle       *)
(* (create / get / update / delete of an organization with its admin and   *)
(* backing collection) and the token based auth gate.                      *)
(*                                                                         *)
(* Every handler is translated store call by store call into a step        *)
(* operator on (store, call).  The routes are synchronous and are served   *)
(* from a thread pool: two workers serve requests, whatever the requests   *)
(* are, and the store calls of their handlers interleave.  The workers are *)
(* alike, so the requests in flight form a bag.                            *)
(***************************************************************************)
EXTENDS Integers, Sequences, FiniteSets, Bags, TLC

VARIABLES orgs, admins, db, nextOid, now, tokens, calls, started, bcrypt

vars == <<orgs, admins, db, nextOid, now, tokens, calls, started, bcrypt>>

(***************************************************************************)
(* Bounds of the model                                                     *)
(***************************************************************************)
\* ObjectIds are generated 1, 2, ... ; no handler starts when it could run past MaxOid
MaxOid == 6
\* the clock (minutes) advances in steps of TickMinutes up to MaxTime
TickMinutes == 15
MaxTime == 45
\* number of bearer tokens login hands out
MaxTokens == 1
\* number of create, update and delete requests served in one behaviour
MaxCalls == 3

(***************************************************************************)
(* Program constants (config.py)                                           *)
(***************************************************************************)
TOKEN_EXPIRE_MIN == 30
SECRET_KEY == "dev-secret-key-change-this"

(***************************************************************************)
(* Inputs                                                                  *)
(***************************************************************************)
None == "None"

\* organization names are strings, modelled as sequences of characters
\* (length 3 = the min_length of models.OrgCreate.organization_name)
OrgNames == { <<"A", "-", "b">>, <<"a", "-", "b">>, <<"x", "y", "z">> }
Emails == { "a@x.com", "b@x.com" }
\* passwords are strings, modelled as sequences of one-byte characters;
\* the password create is given, and the one update changes it to
FirstPassword == <<"s", "e", "c", "r", "e", "t", "1">>
SecondPassword == <<"s", "e", "c", "r", "e", "t", "2">>
\* the number of bytes of a password bcrypt reads
BcryptMaxBytes == 72
\* two passwords of 73 bytes that differ in the last byte only (models.py
\* puts no upper limit on the length of a password)
LongPassword == [i \in 1..BcryptMaxBytes |-> "a"] \o <<"x">>
OtherLongPassword == [i \in 1..BcryptMaxBytes |-> "a"] \o <<"y">>
Passwords == { FirstPassword, SecondPassword, LongPassword, OtherLongPassword }
\* no password supplied (None, or the empty string: both are falsy)
NoPassword == << >>
\* the bcrypt releases the program can be installed with (none is pinned):
\* before 5.0 a password longer than 72 bytes is cut to 72 bytes, from 5.0
\* on hashpw and checkpw raise ValueError for it
BcryptBuilds == { "truncating", "raising" }
\* the salts bcrypt.gensalt() can return
Salts == { "salt1" }
\* a token that was not signed with SECRET_KEY
ForgedTokens == { [admin_id |-> 1, organization_id |-> 2, email |-> "a@x.com",
                   exp |-> MaxTime + TOKEN_EXPIRE_MIN, key |-> "other-key"] }
Workers == { 1, 2 }

(***************************************************************************)
(* clean_org_name                                                          *)
(***************************************************************************)
UpperLetters == <<"A","B","C","D","E","F","G","H","I","J","K","L","M",
                  "N","O","P","Q","R","S","T","U","V","W","X","Y","Z">>
LowerLetters == <<"a","b","c","d","e","f","g","h","i","j","k","l","m",
                  "n","o","p","q","r","s","t","u","v","w","x","y","z">>
Digits == {"0","1","2","3","4","5","6","7","8","9"}
\* characters outside ASCII, written by their code points
KelvinSign == "U+212A"
CapitalIWithDot == "U+0130"
CombiningDotAbove == "U+0307"
CapitalEAcute == "U+00C9"
SmallEAcute == "U+00E9"

\* str.lower() on one character: the characters it becomes.  Of the
\* characters outside ASCII, U+212A becomes the ASCII letter k and U+0130
\* becomes i followed by U+0307; every other one stays outside ASCII
lower(ch) ==
    IF \E i \in 1..26 : UpperLetters[i] = ch
    THEN << LowerLetters[CHOOSE i \in 1..26 : UpperLetters[i] = ch] >>
    ELSE IF ch = KelvinSign THEN << "k" >>
    ELSE IF ch = CapitalIWithDot THEN << "i", CombiningDotAbove >>
    ELSE IF ch = CapitalEAcute THEN << SmallEAcute >>
    ELSE << ch >>

\* name.lower()
RECURSIVE str_lower(_)
str_lower(name) ==
    IF name = << >> THEN << >> ELSE lower(Head(name)) \o str_lower(Tail(name))

\* the character class [a-zA-Z0-9_]
IsWordChar(ch) ==
    \/ \E i \in 1..26 : UpperLetters[i] = ch \/ LowerLetters[i] = ch
    \/ ch \in Digits
    \/ ch = "_"

sanitize_keeping_case(name) ==
    <<"o", "r", "g", "_">> \o
        [i \in 1..Len(name) |-> IF IsWordChar(name[i]) THEN name[i] ELSE "_"]

\* re.sub(r'[^a-zA-Z0-9_]', '_', name.lower()) prefixed with "org_"
sanitize(name) ==
    LET lowered == str_lower(name) IN
    <<"o", "r", "g", "_">> \o
        [i \in 1..Len(lowered) |->
            IF IsWordChar(lowered[i]) THEN lowered[i] ELSE "_"]

\* sanitize, tabulated once over the names the requests use
CollectionNameOf == [n \in OrgNames |-> sanitize(n)]

clean_org_name(name) == CollectionNameOf[name]

(***************************************************************************)
(* auth.py: password hashing and tokens                                    *)
(***************************************************************************)
\* bcrypt.hashpw and bcrypt.checkpw raise ValueError for this password
password_too_long(password) ==
    bcrypt = "raising" /\ Len(password) > BcryptMaxBytes

\* bcrypt.hashpw(password, salt) when it does not raise: the digest is taken
\* of the first 72 bytes of the password; the salt is kept readable inside
\* the hash
hashpw(password, salt) ==
    [salt |-> salt,
     digest |-> <<salt, SubSeq(password, 1,
                               IF Len(password) > BcryptMaxBytes
                               THEN BcryptMaxBytes ELSE Len(password))>>]

hash_pwd(password, salt) == hashpw(password, salt)

check_pwd(plain_pwd, hashed_pwd) == hashpw(plain_pwd, hashed_pwd.salt) = hashed_pwd

\* jwt.encode of data plus exp = now + TOKEN_EXPIRE_MIN, signed with SECRET_KEY
create_token(data, t) ==
    [admin_id |-> data.admin_id, organization_id |-> data.organization_id,
     email |-> data.email, exp |-> t + TOKEN_EXPIRE_MIN, key |-> SECRET_KEY]

\* the claims a token was signed over
payload_of(token) ==
    [admin_id |-> token.admin_id, organization_id |-> token.organization_id,
     email |-> token.email, exp |-> token.exp]

verify_token_forever(token, t) ==
    IF token.key = SECRET_KEY THEN {payload_of(token)} ELSE {}

\* jwt.decode: the payload when the signature is that of SECRET_KEY and the
\* token has not expired (python-jose rejects exp < now); no payload stands
\* for the HTTPException 401 "Token validation failed"
verify_token(token, t) ==
    IF token.key = SECRET_KEY /\ ~(token.exp < t) THEN {payload_of(token)} ELSE {}

(***************************************************************************)
(* The document store                                                      *)
(***************************************************************************)
Store == [orgs |-> orgs, admins |-> admins, db |-> db,
          nextOid |-> nextOid, now |-> now, tokens |-> tokens]

\* collection.find_one(filter) over the matching documents: the first in
\* natural (insertion) order, as the empty set or a singleton
find_one(matching) == { r \in matching : \A q \in matching : r._id <= q._id }

\* list(collection.find()): the documents of a collection in natural
\* (insertion) order; a collection that does not exist has none
find(d, coll) == IF coll \in DOMAIN d THEN d[coll] ELSE << >>

\* the _ids a list of documents holds
ids(docs) == { docs[i] : i \in 1..Len(docs) }

drop_nothing(d, coll) == d

\* collection.drop()
drop(d, coll) == [c \in DOMAIN d \ {coll} |-> d[c]]

\* collection.insert_one / insert_many of documents with fresh or kept _id:
\* creates the collection when it does not exist
insert_docs(d, coll, docs) ==
    [c \in DOMAIN d \cup {coll} |-> IF c = coll THEN find(d, coll) \o docs ELSE d[c]]

\* the unique index on organizations.organization_name (init_db)
org_name_index_ok_none(os, id, name) == TRUE

org_name_index_ok(os, id, name) ==
    ~ \E o \in os : o._id # id /\ o.organization_name = name

\* the unique index on admins.email (init_db)
email_index_ok(as, id, email) ==
    ~ \E a \in as : a._id # id /\ a.email = email

(***************************************************************************)
(* One request being served: its inputs, its position and its locals       *)
(***************************************************************************)
NoName == <<>>

NewCall(op, pc) ==
    [op |-> op, pc |-> pc, status |-> 0, detail |-> "",
     organization_name |-> NoName, new_organization_name |-> NoName,
     email |-> None, password |-> NoPassword, salt |-> None, token |-> {},
     org |-> {}, docs |-> << >>, admin_id |-> 0, user |-> {}, access_token |-> {}]

\* raise HTTPException(status_code, detail), or an unhandled store error (500)
Raise(S, c, status, detail) ==
    [S |-> S, c |-> [c EXCEPT !.pc = "done", !.status = status, !.detail = detail]]

\* the handler returns and the route answers with its success status
Return(S, c, status) ==
    [S |-> S, c |-> [c EXCEPT !.pc = "done", !.status = status]]

Goto(S, c, pc) == [S |-> S, c |-> [c EXCEPT !.pc = pc]]

(***************************************************************************)
(* services.create_org                                                     *)
(***************************************************************************)
name_taken_never(S, name) == FALSE

\* orgs.find_one({"organization_name": name})
name_taken(S, name) == \E o \in S.orgs : o.organization_name = name

\* admins.find_one({"email": email})
email_registered(S, email) == \E a \in S.admins : a.email = email

create_org(S, c) ==
    LET coll_name == clean_org_name(c.organization_name) IN
    CASE c.pc = "c_find_org" ->
           IF name_taken(S, c.organization_name)
           THEN Raise(S, c, 400, "Organization name taken")
           ELSE Goto(S, c, "c_find_admin")
      [] c.pc = "c_find_admin" ->
           IF email_registered(S, c.email)
           THEN Raise(S, c, 400, "Email already registered")
           ELSE Goto(S, c, "c_create_collection")
      [] c.pc = "c_create_collection" ->
           \* setup_org_collection: create_collection raises when the collection
           \* exists; the except swallows it and the seed is not inserted
           IF coll_name \in DOMAIN S.db
           THEN Goto(S, c, "c_insert_admin")
           ELSE Goto([S EXCEPT !.db = insert_docs(S.db, coll_name, << >>)], c, "c_seed")
      [] c.pc = "c_seed" ->
           Goto([S EXCEPT !.db = insert_docs(S.db, coll_name, << S.nextOid >>),
                          !.nextOid = S.nextOid + 1], c, "c_insert_admin")
      [] c.pc = "c_insert_admin" ->
           \* admin_data is built first: hash_pwd(password) may raise
           IF password_too_long(c.password)
           THEN Raise(S, c, 500, "ValueError")
           ELSE IF ~ email_index_ok(S.admins, S.nextOid, c.email)
           THEN Raise(S, c, 500, "DuplicateKeyError")
           ELSE Goto([S EXCEPT !.admins = S.admins \cup
                                   {[_id |-> S.nextOid, email |-> c.email,
                                     password |-> hash_pwd(c.password, c.salt)]},
                               !.nextOid = S.nextOid + 1],
                     [c EXCEPT !.admin_id = S.nextOid], "c_insert_org")
      [] c.pc = "c_insert_org" ->
           IF ~ org_name_index_ok(S.orgs, S.nextOid, c.organization_name)
           THEN Raise(S, c, 500, "DuplicateKeyError")
           ELSE Return([S EXCEPT !.orgs = S.orgs \cup
                                   {[_id |-> S.nextOid,
                                     organization_name |-> c.organization_name,
                                     collection_name |-> coll_name,
                                     admin_id |-> c.admin_id,
                                     admin_email |-> c.email]},
                                 !.nextOid = S.nextOid + 1],
                       [c EXCEPT !.org = {[_id |-> S.nextOid,
                                     organization_name |-> c.organization_name,
                                     collection_name |-> coll_name,
                                     admin_id |-> c.admin_id,
                                     admin_email |-> c.email]}], 201)

(***************************************************************************)
(* services.get_org                                                        *)
(***************************************************************************)
\* a get that takes the record out of the store as it reads it
get_org_removing(S, c) ==
    LET org == find_one({o \in S.orgs : o.organization_name = c.organization_name}) IN
    IF org = {}
    THEN Raise(S, c, 404, "Organization not found")
    ELSE Return([S EXCEPT !.orgs = S.orgs \ org], [c EXCEPT !.org = org], 200)

get_org(S, c) ==
    LET org == find_one({o \in S.orgs : o.organization_name = c.organization_name}) IN
    IF org = {}
    THEN Raise(S, c, 404, "Organization not found")
    ELSE Return(S, [c EXCEPT !.org = org], 200)

(***************************************************************************)
(* services.update_org                                                     *)
(***************************************************************************)
\* insert_many(docs), ordered: the documents go in one by one, in the order
\* of the list, up to the first one whose _id the collection already holds;
\* that one raises BulkWriteError
insert_many_accepted(d, coll, docs) ==
    LET held == ids(find(d, coll))
        n == Cardinality({ i \in 1..Len(docs) : \A j \in 1..i : docs[j] \notin held })
    IN SubSeq(docs, 1, n)

old_documents_none(d, coll) == << >>

\* docs = list(old_collection.find())
old_documents(d, coll) == find(d, coll)

\* admins.find_one({"email": email, "_id": {"$ne": ObjectId(admin_id)}})
email_in_use(S, email, admin_id) ==
    \E a \in S.admins : a.email = email /\ a._id # admin_id

\* the store call that follows the migration block
after_migration(c) ==
    IF c.email # None THEN "u_find_email"
    ELSE IF c.password # NoPassword THEN "u_update_admin"
    ELSE "u_update_org"

\* old_name != new_name
migrates(old_name, new_name) == old_name # new_name

update_org(S, c) ==
    LET org      == CHOOSE o \in c.org : TRUE
        old_coll == org.collection_name
        new_coll == IF migrates(c.organization_name, c.new_organization_name)
                    THEN clean_org_name(c.new_organization_name)
                    ELSE old_coll
    IN
    CASE c.pc = "u_find_org" ->
           LET found == find_one({o \in S.orgs :
                                     o.organization_name = c.organization_name}) IN
           IF found = {}
           THEN Raise(S, c, 404, "Organization not found")
           ELSE IF migrates(c.organization_name, c.new_organization_name)
           THEN Goto(S, [c EXCEPT !.org = found], "u_find_new_name")
           ELSE Goto(S, [c EXCEPT !.org = found], after_migration(c))
      [] c.pc = "u_find_new_name" ->
           IF name_taken(S, c.new_organization_name)
           THEN Raise(S, c, 400, "New name already exists")
           ELSE Goto(S, c, "u_find_docs")
      [] c.pc = "u_find_docs" ->
           LET docs == old_documents(S.db, old_coll) IN
           IF docs # << >>
           THEN Goto(S, [c EXCEPT !.docs = docs], "u_insert_many")
           ELSE Goto(S, c, "u_drop")
      [] c.pc = "u_insert_many" ->
           LET accepted == insert_many_accepted(S.db, new_coll, c.docs)
               S2 == IF accepted = << >> THEN S
                     ELSE [S EXCEPT !.db = insert_docs(S.db, new_coll, accepted)]
           IN
           IF accepted # c.docs
           THEN Raise(S2, c, 500, "BulkWriteError")
           ELSE Goto(S2, c, "u_drop")
      [] c.pc = "u_drop" ->
           Goto([S EXCEPT !.db = drop(S.db, old_coll)], c, after_migration(c))
      [] c.pc = "u_find_email" ->
           IF email_in_use(S, c.email, org.admin_id)
           THEN Raise(S, c, 400, "Email in use")
           ELSE Goto(S, c, "u_update_admin")
      [] c.pc = "u_update_admin" ->
           \* admin_updates["password"] = hash_pwd(password), which may raise,
           \* then admins.update_one({"_id": admin_id}, {"$set": admin_updates})
           LET target  == { a \in S.admins : a._id = org.admin_id }
               updated == { [a EXCEPT
                               !.email = IF c.email # None THEN c.email ELSE @,
                               !.password = IF c.password # NoPassword
                                            THEN hash_pwd(c.password, c.salt) ELSE @]
                            : a \in target }
           IN
           IF c.password # NoPassword /\ password_too_long(c.password)
           THEN Raise(S, c, 500, "ValueError")
           ELSE IF c.email # None /\ target # {}
              /\ ~ email_index_ok(S.admins, org.admin_id, c.email)
           THEN Raise(S, c, 500, "DuplicateKeyError")
           ELSE Goto([S EXCEPT !.admins = (S.admins \ target) \cup updated],
                     c, "u_update_org")
      [] c.pc = "u_update_org" ->
           \* orgs.update_one({"_id": org["_id"]}, {"$set": org_updates})
           LET target  == { o \in S.orgs : o._id = org._id }
               updated == { [o EXCEPT
                               !.organization_name = c.new_organization_name,
                               !.collection_name = new_coll,
                               !.admin_email = IF c.email # None THEN c.email ELSE @]
                            : o \in target }
           IN
           IF target # {}
              /\ ~ org_name_index_ok(S.orgs, org._id, c.new_organization_name)
           THEN Raise(S, c, 500, "DuplicateKeyError")
           ELSE Return([S EXCEPT !.orgs = (S.orgs \ target) \cup updated], c, 200)

(***************************************************************************)
(* auth.get_current_user and services.delete_org (DELETE /org/delete)      *)
(***************************************************************************)
\* ObjectId(admin_id) accepts the string
is_object_id(id) == id \in Nat

\* admins.find_one({"_id": ObjectId(admin_id)})
admin_found(S, admin_id) == \E a \in S.admins : a._id = admin_id

\* a gate that trusts the claims of a verified token
get_current_user_unresolved(S, c) ==
    LET token == CHOOSE t \in c.token : TRUE
        verified == verify_token(token, S.now)
        payload == CHOOSE p \in verified : TRUE
    IN
    IF verified = {}
    THEN Raise(S, c, 401, "Token validation failed")
    ELSE IF payload.admin_id = 0 \/ payload.organization_id = 0
    THEN Raise(S, c, 401, "Invalid token")
    ELSE Goto(S, [c EXCEPT !.user = {[admin_id |-> payload.admin_id,
                                      organization_id |-> payload.organization_id,
                                      email |-> payload.email]}], "d_find_org")

get_current_user(S, c) ==
    LET token == CHOOSE t \in c.token : TRUE
        verified == verify_token(token, S.now)
        payload == CHOOSE p \in verified : TRUE
    IN
    IF verified = {}
    THEN Raise(S, c, 401, "Token validation failed")
    ELSE IF payload.admin_id = 0 \/ payload.organization_id = 0
    THEN Raise(S, c, 401, "Invalid token")
    ELSE IF ~ is_object_id(payload.admin_id)
    THEN Raise(S, c, 401, "Invalid admin ID")
    ELSE IF ~ admin_found(S, payload.admin_id)
    THEN Raise(S, c, 401, "Admin not found")
    ELSE LET admin == CHOOSE a \in S.admins : a._id = payload.admin_id IN
         Goto(S, [c EXCEPT !.user = {[admin_id |-> admin._id,
                                      organization_id |-> payload.organization_id,
                                      email |-> admin.email]}], "d_find_org")

is_owner_always(org, current_user) == TRUE

\* not (org["admin_id"] != current_user["admin_id"])
is_owner(org, current_user) == org.admin_id = current_user.admin_id

delete_org(S, c) ==
    LET org == CHOOSE o \in c.org : TRUE
        current_user == CHOOSE u \in c.user : TRUE
    IN
    CASE c.pc = "d_find_org" ->
           LET found == find_one({o \in S.orgs :
                                     o.organization_name = c.organization_name}) IN
           IF found = {}
           THEN Raise(S, c, 404, "Organization not found")
           ELSE IF ~ is_owner(CHOOSE o \in found : TRUE, current_user)
           THEN Raise(S, c, 403, "Not authorized")
           ELSE Goto(S, [c EXCEPT !.org = found], "d_drop")
      [] c.pc = "d_drop" ->
           Goto([S EXCEPT !.db = drop(S.db, org.collection_name)], c, "d_delete_admin")
      [] c.pc = "d_delete_admin" ->
           Goto([S EXCEPT !.admins = { a \in S.admins : a._id # org.admin_id }],
                c, "d_delete_org")
      [] c.pc = "d_delete_org" ->
           Return([S EXCEPT !.orgs = { o \in S.orgs : o._id # org._id }], c, 200)

delete_organization_endpoint(S, c) ==
    IF c.pc = "g_find_admin" THEN get_current_user(S, c) ELSE delete_org(S, c)

(***************************************************************************)
(* routes.login_endpoint                                                   *)
(***************************************************************************)
login_endpoint(S, c) ==
    CASE c.pc = "l_find_admin" ->
           LET found == find_one({a \in S.admins : a.email = c.email}) IN
           IF found = {}
           THEN Raise(S, c, 401, "Invalid credentials")
           ELSE LET admin == CHOOSE a \in found : TRUE IN
                IF password_too_long(c.password)
                THEN Raise(S, c, 500, "ValueError")
                ELSE IF ~ check_pwd(c.password, admin.password)
                THEN Raise(S, c, 401, "Invalid credentials")
                ELSE Goto(S, [c EXCEPT !.user = {[admin_id |-> admin._id,
                                                  organization_id |-> 0,
                                                  email |-> admin.email]}],
                          "l_find_org")
      [] c.pc = "l_find_org" ->
           LET admin == CHOOSE u \in c.user : TRUE
               found == find_one({o \in S.orgs : o.admin_id = admin.admin_id})
           IN
           IF found = {}
           THEN Raise(S, c, 404, "No org found")
           ELSE LET org == CHOOSE o \in found : TRUE
                    token == create_token([admin_id |-> admin.admin_id,
                                           organization_id |-> org._id,
                                           email |-> admin.email], S.now)
                IN Return([S EXCEPT !.tokens = S.tokens \cup {token}],
                          [c EXCEPT !.org = found, !.access_token = {token}], 200)

(***************************************************************************)
(* Serving a request                                                       *)
(***************************************************************************)
\* the next store call of the handler of call c
step(S, c) ==
    CASE c.op = "create" -> create_org(S, c)
      [] c.op = "get"    -> get_org(S, c)
      [] c.op = "update" -> update_org(S, c)
      [] c.op = "delete" -> delete_organization_endpoint(S, c)
      [] c.op = "login"  -> login_endpoint(S, c)

\* the handler run to completion
RECURSIVE run(_, _)
run(S, c) ==
    IF c.pc = "done" THEN [S |-> S, c |-> c]
    ELSE LET r == step(S, c) IN run(r.S, r.c)

\* the requests the routes accept
CreateRequests ==
    { [NewCall("create", "c_find_org") EXCEPT
          !.organization_name = n, !.email = e, !.password = p, !.salt = s]
      : n \in OrgNames, e \in Emails, p \in {FirstPassword}, s \in Salts }

GetRequests ==
    { [NewCall("get", "r_find_org") EXCEPT !.organization_name = n] : n \in OrgNames }

UpdateRequests ==
    { [NewCall("update", "u_find_org") EXCEPT
          !.organization_name = r[1], !.new_organization_name = r[2],
          !.email = r[3], !.password = r[4],
          !.salt = IF r[4] = NoPassword THEN None ELSE r[5]]
      : r \in OrgNames \X OrgNames \X (Emails \cup {None})
              \X {SecondPassword, LongPassword, NoPassword} \X Salts }

DeleteRequests ==
    { [NewCall("delete", "g_find_admin") EXCEPT
          !.organization_name = n, !.token = {t}]
      : n \in OrgNames, t \in tokens \cup ForgedTokens }

LoginRequests ==
    { [NewCall("login", "l_find_admin") EXCEPT !.email = e, !.password = p]
      : e \in Emails, p \in Passwords }

\* what the client sees of a served request: the route, the status code
\* and the detail message
Response(c) == [op |-> c.op, status |-> c.status, detail |-> c.detail]

Commit(S) ==
    /\ orgs' = S.orgs
    /\ admins' = S.admins
    /\ db' = S.db
    /\ nextOid' = S.nextOid
    /\ tokens' = S.tokens

\* the requests that write to the store
Writes(c) == c.op \in {"create", "update", "delete"}

\* every request that was begun has been answered
Quiescent == calls = EmptyBag

\* the number of requests of route op that are being served
InFlight(op) ==
    BagCardinality([c \in { d \in BagToSet(calls) : d.op = op } |-> calls[c]])

\* a worker has performed a store call of the handler of a request in
\* flight (before: that request, or no request when it was just taken),
\* which left r; an answered request leaves the pool
Advance(before, r) ==
    /\ Cardinality(r.S.tokens) <= MaxTokens
    /\ Commit(r.S)
    /\ calls' = (calls (-) before)
                   (+) (IF r.c.pc = "done" THEN EmptyBag ELSE SetToBag({r.c}))

\* a free worker takes request c and performs the first store call of its
\* handler, while the other worker may be in the middle of its own
Begin(c) ==
    /\ BagCardinality(calls) < Cardinality(Workers)
    /\ Writes(c) => started < MaxCalls
    /\ \E r \in {step(Store, c)} : Advance(EmptyBag, r)
    /\ started' = IF Writes(c) THEN started + 1 ELSE started
    /\ UNCHANGED <<now, bcrypt>>

Init ==
    /\ orgs = {}
    /\ admins = {}
    /\ db = << >>
    /\ nextOid = 1
    /\ now = 0
    /\ tokens = {}
    /\ calls = EmptyBag
    /\ started = 0
    /\ bcrypt \in BcryptBuilds

CreateOrganization ==
    \E c \in CreateRequests :
       /\ nextOid + 3 * (InFlight("create") + 1) - 1 <= MaxOid
       /\ Begin(c)

GetOrganization == \E c \in GetRequests : Begin(c)

UpdateOrganization == \E c \in UpdateRequests : Begin(c)

DeleteOrganization == \E c \in DeleteRequests : Begin(c)

Login == \E c \in LoginRequests : Begin(c)

\* a worker in the middle of a handler performs its next store call
StoreCall ==
    \E c \in BagToSet(calls) :
        /\ \E r \in {step(Store, c)} : Advance(SetToBag({c}), r)
        /\ UNCHANGED <<now, started, bcrypt>>

Tick ==
    /\ now + TickMinutes <= MaxTime
    /\ now' = now + TickMinutes
    /\ UNCHANGED <<orgs, admins, db, nextOid, tokens, calls, started, bcrypt>>

Next ==
    \/ CreateOrganization
    \/ GetOrganization
    \/ UpdateOrganization
    \/ DeleteOrganization
    \/ Login
    \/ StoreCall

Spec == Init /\ [][Next]_vars

\* the Credential Engine by itself: create_token and verify_token read the
\* claims, the key and the clock, and no record of the store
TokenClaims ==
    { [admin_id |-> a, organization_id |-> o, email |-> e]
      : a \in 1..MaxOid, o \in 1..MaxOid, e \in Emails }

\* create_token(data) is called and its token handed out
IssueToken ==
    \E data \in TokenClaims :
       \E token \in {create_token(data, now)} :
          /\ Cardinality(tokens \cup {token}) <= MaxTokens
          /\ tokens' = tokens \cup {token}
          /\ UNCHANGED <<orgs, admins, db, nextOid, now, calls, started, bcrypt>>

NextClock ==
    \/ IssueToken
    \/ Tick

SpecClock == Init /\ [][NextClock]_vars

(***************************************************************************)
(* Properties.  Outcome(c) is what serving request c in the current state  *)
(* answers (.c) and the store it leaves (.S).                              *)
(***************************************************************************)
Outcome(c) == run(Store, c)

\* derive, as the claims word it: lowercase the name, turn every character
\* outside letters, digits and underscore into "_", prefix "org_".  Letters
\* are the letters a-z; lowercasing is that of the language's strings
Lowercase(ch) ==
    IF \E i \in 1..26 : UpperLetters[i] = ch
    THEN << LowerLetters[CHOOSE i \in 1..26 : UpperLetters[i] = ch] >>
    ELSE IF ch = KelvinSign THEN << "k" >>
    ELSE IF ch = CapitalIWithDot THEN << "i", CombiningDotAbove >>
    ELSE IF ch = CapitalEAcute THEN << SmallEAcute >>
    ELSE << ch >>

RECURSIVE Lowercased(_)
Lowercased(name) ==
    IF name = << >> THEN << >> ELSE Lowercase(Head(name)) \o Lowercased(Tail(name))

DeriveChar(ch) ==
    IF (\E i \in 1..26 : LowerLetters[i] = ch) \/ ch \in Digits \/ ch = "_"
    THEN ch
    ELSE "_"

Derive(name) ==
    <<"o", "r", "g", "_">> \o
        [i \in 1..Len(Lowercased(name)) |-> DeriveChar(Lowercased(name)[i])]

Derived == [n \in OrgNames |-> Derive(n)]

AllRequests ==
    CreateRequests \cup GetRequests \cup UpdateRequests \cup DeleteRequests
        \cup LoginRequests

OrgsNamed(os, name) == { o \in os : o.organization_name = name }

\* C1: no two Organization records ever have the same organization_name; a
\* create whose org_name is already used fails with Conflict and leaves
\* exactly one Organization record with that name; a rename of an existing
\* organization to a different name that another Organization uses fails
\* with Conflict.
C1_UniqueOrganizationName ==
    /\ \A o1, o2 \in orgs :
          o1.organization_name = o2.organization_name => o1 = o2
    /\ Quiescent =>
          \A c \in CreateRequests :
             OrgsNamed(orgs, c.organization_name) # {} =>
                \E r \in {Outcome(c)} :
                   /\ r.c.status = 400
                   /\ r.c.detail = "Organization name taken"
                   /\ Cardinality(OrgsNamed(r.S.orgs, c.organization_name)) = 1
    /\ Quiescent =>
          \A c \in UpdateRequests :
             ( /\ c.new_organization_name # c.organization_name
               /\ OrgsNamed(orgs, c.organization_name) # {}
               /\ OrgsNamed(orgs, c.new_organization_name) # {} ) =>
                \E r \in {Outcome(c)} :
                   /\ r.c.status = 400
                   /\ r.c.detail = "New name already exists"
                   /\ r.S.orgs = orgs

\* a create of a taken name is about to be refused, leaving the one
\* Organization of that name, and a rename to another Organization's name
\* is about to be refused
C1_Witness ==
    /\ Quiescent
    /\ \E c \in CreateRequests :
          /\ OrgsNamed(orgs, c.organization_name) # {}
          /\ \E r \in {Outcome(c)} :
                /\ r.c.status = 400
                /\ r.c.detail = "Organization name taken"
                /\ Cardinality(OrgsNamed(r.S.orgs, c.organization_name)) = 1
    /\ \E c \in UpdateRequests :
          /\ c.new_organization_name # c.organization_name
          /\ OrgsNamed(orgs, c.organization_name) # {}
          /\ OrgsNamed(orgs, c.new_organization_name) # {}
          /\ Outcome(c).c.detail = "New name already exists"

\* C2: no two Organization records have the same collection_name (no two
\* organizations share a backing collection).
C2_UniqueCollectionName ==
    \A o1, o2 \in orgs : o1.collection_name = o2.collection_name => o1 = o2

\* C3: after a successful rename to a different name, every document of the
\* old backing collection is in the collection named derive(new_name), the
\* old backing collection no longer exists, and the Organization record's
\* collection_name is derive(new_name); for every pair of names.
C3_RenameMigrates ==
    Quiescent =>
       \A c \in UpdateRequests :
          \A o \in OrgsNamed(orgs, c.organization_name) :
             c.new_organization_name # c.organization_name =>
                \E r \in {Outcome(c)} :
                   r.c.status = 200 =>
                      /\ ids(find(db, o.collection_name))
                            \subseteq ids(find(r.S.db, Derived[c.new_organization_name]))
                      /\ o.collection_name \notin DOMAIN r.S.db
                      /\ \E o2 \in r.S.orgs :
                            /\ o2._id = o._id
                            /\ o2.organization_name = c.new_organization_name
                            /\ o2.collection_name = Derived[c.new_organization_name]

\* a rename to a different name is about to succeed on an organization
\* whose backing collection holds documents, and moves them
C3_Witness ==
    /\ Quiescent
    /\ \E c \in UpdateRequests :
          \E o \in OrgsNamed(orgs, c.organization_name) :
             /\ c.new_organization_name # c.organization_name
             /\ find(db, o.collection_name) # << >>
             /\ Outcome(c).c.status = 200
             /\ ids(find(db, o.collection_name))
                   \subseteq ids(find(Outcome(c).S.db, Derived[c.new_organization_name]))

\* only the organization's own admin deletes it
DeleteOwnership ==
    Quiescent =>
       /\ \A c \in DeleteRequests :
             \E r \in {Outcome(c)} :
                \A o \in OrgsNamed(orgs, c.organization_name) :
                   \A u \in r.c.user :
                      u.admin_id # o.admin_id =>
                         /\ r.c.status = 403
                         /\ r.S.orgs = orgs
                         /\ r.S.admins = admins
                         /\ r.S.db = db
       /\ \A c \in AllRequests :
             \E r \in {Outcome(c)} :
                \A o \in orgs :
                   (~ \E o2 \in r.S.orgs : o2._id = o._id) =>
                      /\ c.op = "delete"
                      /\ r.c.status = 200
                      /\ c.organization_name = o.organization_name
                      /\ \A t \in c.token : t.admin_id = o.admin_id

\* C4: a delete whose authenticated admin is not the Organization's admin
\* fails with Forbidden and changes no Organization, Admin or collection;
\* no request removes an Organization record except a successful delete by
\* the organization's own admin.
C4_DeleteOwnership == []DeleteOwnership

\* a delete by the admin of another organization is about to be refused
C4_Witness ==
    /\ Quiescent
    /\ \E c \in DeleteRequests :
          \E o \in OrgsNamed(orgs, c.organization_name) :
             \E r \in {Outcome(c)} :
                /\ \E u \in r.c.user : u.admin_id # o.admin_id
                /\ r.c.status = 403
                /\ r.c.detail = "Not authorized"
                /\ Cardinality(orgs) = 2
                /\ r.S.orgs = orgs

\* the status get(name) answers in store S
GetStatus(S, name) ==
    run(S, [NewCall("get", "r_find_org") EXCEPT !.organization_name = name]).c.status

\* a delete by the organization's own admin removes the Organization, its
\* Admin and the backing collection, and get then fails with NotFound
DeleteRemoves ==
    Quiescent =>
       \A c \in DeleteRequests :
          \E r \in {Outcome(c)} :
             \A o \in OrgsNamed(orgs, c.organization_name) :
                \A u \in r.c.user :
                   u.admin_id = o.admin_id =>
                      /\ r.c.status = 200
                      /\ ~ \E o2 \in r.S.orgs : o2._id = o._id
                      /\ ~ \E a \in r.S.admins : a._id = o.admin_id
                      /\ o.collection_name \notin DOMAIN r.S.db
                      /\ GetStatus(r.S, c.organization_name) = 404

\* C5 (as stated): a delete by the organization's own admin removes the
\* Organization, its Admin and the backing collection, and get of that name
\* keeps failing with NotFound until a create of that name succeeds: after
\* the delete, no request other than a successful create of the name makes
\* get of the name succeed.
C5_GoneUntilCreate ==
    /\ DeleteRemoves
    /\ Quiescent =>
          \A c \in DeleteRequests :
             \E r \in {Outcome(c)} :
                r.c.status = 200 =>
                   \A c2 \in AllRequests :
                      \E r2 \in {run(r.S, c2)} :
                         GetStatus(r2.S, c.organization_name) # 404 =>
                            /\ c2.op = "create"
                            /\ c2.organization_name = c.organization_name
                            /\ r2.c.status = 201

\* a name that no Organization has is given to one only by a create of
\* that name or a rename to it
GoneUntilCreateOrRename ==
    /\ DeleteRemoves
    /\ Quiescent =>
          \A n \in OrgNames :
             OrgsNamed(orgs, n) = {} =>
                /\ GetStatus(Store, n) = 404
                /\ \A c \in AllRequests :
                      \E r \in {Outcome(c)} :
                         GetStatus(r.S, n) # 404 =>
                            \/ /\ c.op = "create"
                               /\ c.organization_name = n
                               /\ r.c.status = 201
                            \/ /\ c.op = "update"
                               /\ c.new_organization_name = n
                               /\ r.c.status = 200

\* C5 (amended): ... until a create of that name or a rename to that name
\* succeeds: get of a name no Organization has fails with NotFound, and the
\* only requests that give a name to an Organization are a successful
\* create of it and a successful rename to it.
C5_GoneUntilCreateOrRename == []GoneUntilCreateOrRename

\* a delete by the owner is about to succeed and to leave nothing, and the
\* get that follows it fails with NotFound
C5_Witness ==
    /\ Quiescent
    /\ \E c \in DeleteRequests :
          \E r \in {Outcome(c)} :
             /\ r.c.status = 200
             /\ OrgsNamed(orgs, c.organization_name) # {}
             /\ r.S.orgs = {}
             /\ r.S.admins = {}
             /\ DOMAIN r.S.db = {}
             /\ GetStatus(r.S, c.organization_name) = 404

\* C6: no two Admin records have the same email; a create whose email is
\* used fails with Conflict and inserts no Admin, Organization or
\* collection; a rename (of an existing organization) that supplies an
\* email owned by a different Admin fails with Conflict and changes no
\* Admin's email.
C6_UniqueAdminEmail ==
    /\ \A a1, a2 \in admins : a1.email = a2.email => a1 = a2
    /\ Quiescent =>
          \A c \in CreateRequests :
             (\E a \in admins : a.email = c.email) =>
                \E r \in {Outcome(c)} :
                   /\ r.c.status = 400
                   /\ r.S.admins = admins
                   /\ r.S.orgs = orgs
                   /\ r.S.db = db
    /\ Quiescent =>
          \A c \in UpdateRequests :
             \A o \in OrgsNamed(orgs, c.organization_name) :
                (\E a \in admins : a.email = c.email /\ a._id # o.admin_id) =>
                   \E r \in {Outcome(c)} :
                      /\ r.c.status = 400
                      /\ r.S.admins = admins

\* a token whose admin is gone is refused, and its admin_id is never given
\* to an Admin again
DeadTokenRejected ==
    Quiescent =>
       /\ \A c \in DeleteRequests :
             \A t \in c.token :
                (~ \E a \in admins : a._id = t.admin_id) =>
                   \E r \in {Outcome(c)} :
                      /\ r.c.status = 401
                      /\ r.S = Store
       /\ \A t \in tokens :
             (~ \E a \in admins : a._id = t.admin_id) =>
                \A c \in AllRequests :
                   ~ \E a \in Outcome(c).S.admins : a._id = t.admin_id

\* C7: the Auth Gate rejects with Unauthorized every token whose admin_id
\* resolves to no Admin record, and the admin_id of such a token never
\* resolves again, whatever is created afterwards.
C7_DeadTokenRejected == []DeadTokenRejected

\* a token issued by login is about to be rejected after its admin was
\* deleted, while an Admin with the token's email exists again
C7_Witness ==
    /\ Quiescent
    /\ \E c \in DeleteRequests :
          \E t \in c.token :
             /\ t \in tokens
             /\ ~ \E a \in admins : a._id = t.admin_id
             /\ \E a \in admins : a.email = t.email
             /\ \E o \in orgs : o.admin_email = t.email /\ o._id # t.organization_id
             /\ Outcome(c).c.status = 401
             /\ Outcome(c).c.detail = "Admin not found"

\* C8: once every request has been answered, each Organization's
\* admin_email equals the email of the Admin record its admin_id references.
C8_AdminEmailCopy ==
    Quiescent =>
       \A o \in orgs : \A a \in admins :
          a._id = o.admin_id => o.admin_email = a.email

\* C9: when concurrent creates of one name both pass the pre-check, the
\* unique index rejects the second insert: at most one Organization record
\* has any given organization_name, in every reachable state.
C9_IndexKeepsNamesUnique ==
    \A o1, o2 \in orgs : o1.organization_name = o2.organization_name => o1 = o2

\* a create that passed both pre-checks and inserted its Admin is about to
\* insert its Organization while another create's Organization of that name
\* is there, and the unique index rejects the insert
C9_Witness ==
    \E c \in BagToSet(calls) :
       /\ c.op = "create"
       /\ c.pc = "c_insert_org"
       /\ Cardinality(OrgsNamed(orgs, c.organization_name)) = 1
       /\ \E r \in {step(Store, c)} :
             /\ r.c.status = 500
             /\ r.c.detail = "DuplicateKeyError"
             /\ r.S.orgs = orgs

\* C10: once every request has been answered, every Organization's admin_id
\* references an existing Admin record and every Admin record is referenced
\* by exactly one Organization.
C10_OneAdminPerOrganization ==
    Quiescent =>
       /\ \A o \in orgs : \E a \in admins : a._id = o.admin_id
       /\ \A a \in admins : Cardinality({ o \in orgs : o.admin_id = a._id }) = 1

\* C11: a rename whose new_name equals old_name and that supplies an email
\* not owned by another Admin leaves the Organization's collection_name and
\* every backing collection (existence and documents) unchanged, and sets
\* both the Organization's admin_email and the Admin record's email to the
\* supplied email.
C11_SameNameRename ==
    Quiescent =>
       \A c \in UpdateRequests :
          \A o \in OrgsNamed(orgs, c.organization_name) :
             ( /\ c.new_organization_name = c.organization_name
               /\ c.email # None
               /\ ~ \E a \in admins : a.email = c.email /\ a._id # o.admin_id )
             => \E r \in {Outcome(c)} :
                   /\ r.c.status = 200
                   /\ r.S.db = db
                   /\ \E o2 \in r.S.orgs :
                         /\ o2._id = o._id
                         /\ o2.collection_name = o.collection_name
                         /\ o2.admin_email = c.email
                   /\ \E a \in r.S.admins : a._id = o.admin_id /\ a.email = c.email

AcmeCorp == <<"A", "c", "m", "e", " ", "C", "o", "r", "p">>

OrgAcmeCorp == <<"o","r","g","_","a","c","m","e","_","c","o","r","p">>

\* names with characters outside ASCII
SampleNames ==
    { AcmeCorp, << KelvinSign, "1", "2" >>, << CapitalIWithDot, "1", "2" >>,
      << CapitalEAcute, "c", "o" >>, << "a", SmallEAcute, "_", "Z" >> }

SamplesDerived ==
    /\ sanitize(AcmeCorp) = OrgAcmeCorp
    /\ sanitize(<< KelvinSign, "1", "2" >>) = <<"o","r","g","_","k","1","2">>
    /\ sanitize(<< CapitalIWithDot, "1", "2" >>) = <<"o","r","g","_","i","_","1","2">>
    /\ \A n \in SampleNames : sanitize(n) = Derive(n)

\* every stored and every returned collection_name is the derived one
DerivedCollectionNames ==
    /\ SamplesDerived
    /\ \A o \in orgs : o.collection_name = Derived[o.organization_name]
    /\ Quiescent =>
          \A c \in GetRequests :
             \E r \in {Outcome(c)} :
                r.c.status = 200 =>
                   \A o \in r.c.org :
                      /\ o.organization_name = c.organization_name
                      /\ o.collection_name = Derived[c.organization_name]

\* C12: in every reachable state each Organization's collection_name equals
\* derive(organization_name) (lowercased, every character outside letters,
\* digits and underscore replaced by "_", prefixed with "org_"): "Acme Corp"
\* gives org_acme_corp, a get returns the derived name, and the equality
\* still holds after any sequence of renames.
C12_CollectionNameDerived == []DerivedCollectionNames

\* a rename is about to give an organization a different name with an
\* upper-case letter and a punctuation mark, and the get that follows it
\* returns the derived collection name
C12_Witness ==
    /\ Quiescent
    /\ \E c \in UpdateRequests :
          /\ c.new_organization_name = <<"A", "-", "b">>
          /\ c.organization_name = <<"x", "y", "z">>
          /\ \E r \in {Outcome(c)} :
                /\ r.c.status = 200
                /\ \E g \in {run(r.S, [NewCall("get", "r_find_org") EXCEPT
                                          !.organization_name = <<"A", "-", "b">>])} :
                      /\ g.c.status = 200
                      /\ \A o \in g.c.org :
                            o.collection_name = <<"o", "r", "g", "_", "a", "_", "b">>

\* the Admin records a login with this email looks at
AdminsWithEmail(email) == { a \in admins : a.email = email }

\* the passwords create and rename give to an Admin; no two of them agree
\* on their first 72 bytes
GivenPasswords == { FirstPassword, SecondPassword, LongPassword }

\* the password admin a was given
HasPassword(a, password) ==
    /\ password \in GivenPasswords
    /\ a.password = hashpw(password, a.password.salt)

WrongPassword(a, password) == ~ HasPassword(a, password)

Unauthorized == [op |-> "login", status |-> 401, detail |-> "Invalid credentials"]

\* C13: login fails with the same Unauthorized outcome (same status and same
\* message) when the email matches no Admin and when the email matches an
\* Admin but the password is wrong, in every reachable state of the store.
C13_LoginFailuresAlike ==
    Quiescent =>
       \A c \in LoginRequests :
          ( \/ AdminsWithEmail(c.email) = {}
            \/ \A a \in AdminsWithEmail(c.email) : WrongPassword(a, c.password) )
          => \E r \in {Outcome(c)} :
                /\ Response(r.c) = Unauthorized
                /\ r.c.access_token = {}
                /\ r.c.org = {}
                /\ r.S = Store

\* the requests that present token t to the gate
Presenting(t) == { c \in DeleteRequests : c.token = {t} }

\* verify_token returns the claims token t was issued for
Accepted(t) ==
    \E p \in verify_token(t, now) :
       /\ verify_token(t, now) = {p}
       /\ p.admin_id = t.admin_id
       /\ p.organization_id = t.organization_id
       /\ p.email = t.email

\* verify_token fails on token t, and every request presenting it is
\* answered Unauthorized and writes nothing
Rejected(t) ==
    /\ verify_token(t, now) = {}
    /\ \A c \in Presenting(t) :
          \E r \in {Outcome(c)} :
             /\ r.c.status = 401
             /\ r.c.detail = "Token validation failed"
             /\ r.S = Store

\* C14: verify_token applied to a token made by create_token(claims)
\* returns the admin_id, organization_id and email of those claims at any
\* time before issue time plus 30 minutes, and fails with Unauthorized at
\* any time after that expiry; no token is accepted after its expiry.
C14_TokenRoundTrip ==
    /\ \A data \in TokenClaims :
          \E t \in {create_token(data, now)} :
             /\ t.exp = now + 30
             /\ \E p \in verify_token(t, now) :
                   /\ verify_token(t, now) = {p}
                   /\ p.admin_id = data.admin_id
                   /\ p.organization_id = data.organization_id
                   /\ p.email = data.email
    /\ \A t \in tokens :
          /\ now < t.exp => Accepted(t)
          /\ now > t.exp => Rejected(t)
    /\ \A c \in DeleteRequests :
          \A t \in c.token :
             now > t.exp => Outcome(c).c.status = 401

\* a token that create_token made has outlived its expiry, verify_token
\* fails on it and a delete presenting it is refused
C14_Witness ==
    \E t \in tokens :
       /\ t.key = SECRET_KEY
       /\ t.exp < now
       /\ Presenting(t) # {}
       /\ Rejected(t)

\* no get writes to the store
GetChangesNothing ==
    Quiescent =>
       \A c \in GetRequests :
          \E r \in {Outcome(c)} :
             /\ r.c.status \in {200, 404}
             /\ r.S.orgs = orgs
             /\ r.S.admins = admins
             /\ r.S.db = db

\* C15: get(org_name) changes nothing: for every state and every name,
\* whether it returns the OrgView or fails with NotFound, all Organization
\* records, Admin records and backing collections are the same after the
\* call as before it.
C15_GetChangesNothing == []GetChangesNothing

\* a get is about to return an organization whose backing collection holds
\* documents, and a get of another name to fail with NotFound; neither
\* writes
C15_Witness ==
    /\ Quiescent
    /\ \E o \in orgs : find(db, o.collection_name) # << >>
    /\ \E c1, c2 \in GetRequests :
          /\ Outcome(c1).c.status = 200
          /\ Outcome(c1).S = Store
          /\ Outcome(c2).c.status = 404
          /\ Outcome(c2).S = Store

\* C16: a rename that fails with NotFound or with Conflict (new name already
\* taken, or supplied email owned by another Admin) leaves every
\* Organization record, every Admin record and every backing collection
\* (its existence and its documents) unchanged, also when it changes the
\* name and supplies an email owned by another Admin.
C16_FailedRenameChangesNothing ==
    Quiescent =>
       \A c \in UpdateRequests :
          \E r \in {Outcome(c)} :
             r.c.status \in {404, 400} =>
                /\ r.S.orgs = orgs
                /\ r.S.admins = admins
                /\ r.S.db = db

\* the requests that act on one organization and write
WritingRequests == CreateRequests \cup UpdateRequests \cup DeleteRequests

\* C17: tenant isolation: a create, rename or delete performed on one
\* organization never drops another existing organization's backing
\* collection and never adds documents to it or removes documents from it.
C17_TenantIsolation ==
    Quiescent =>
       \A c \in WritingRequests :
          \E r \in {Outcome(c)} :
             \A o \in orgs :
                ( /\ o.organization_name # c.organization_name
                  /\ o.collection_name \in DOMAIN db )
                => /\ o.collection_name \in DOMAIN r.S.db
                   /\ r.S.db[o.collection_name] = db[o.collection_name]

\* a login with these credentials, served on store S
LoginOn(S, email, password) ==
    run(S, [NewCall("login", "l_find_admin") EXCEPT
               !.email = email, !.password = password])

\* the renames that supply a password, the other long password included
PasswordRenames ==
    { u \in UpdateRequests : u.password # NoPassword }
       \cup { [u EXCEPT !.password = OtherLongPassword]
               : u \in { x \in UpdateRequests : x.password = LongPassword } }

\* after a successful rename u of organization o, whose admin was a and is
\* now a2 in the store S: the new password logs in as that admin and
\* organization, and a previous password that is not the new one is refused
NewPasswordReplacesOld(S, u, o, a, a2) ==
    /\ \E l \in {LoginOn(S, a2.email, u.password)} :
          /\ l.c.status = 200
          /\ \E t \in l.c.access_token :
                /\ l.c.access_token = {t}
                /\ t.admin_id = a._id
                /\ t.organization_id = o._id
    /\ \A p \in Passwords :
          (HasPassword(a, p) /\ p # u.password)
          => LoginOn(S, a2.email, p).c.status = 401

\* C18: after a successful rename that supplies a password, login with the
\* admin's current email and the new password succeeds with a token for that
\* admin and its organization, and login with the previous password fails
\* with Unauthorized; a rename that supplies no password leaves the stored
\* password hash unchanged.  The previous password is read as one that is
\* not the new password.
C18_PasswordRename ==
    Quiescent =>
       /\ \A u \in PasswordRenames :
             \E r \in {Outcome(u)} :
                r.c.status = 200 =>
                   \A o \in OrgsNamed(orgs, u.organization_name) :
                      \A a \in { x \in admins : x._id = o.admin_id } :
                         \E a2 \in r.S.admins :
                            /\ a2._id = a._id
                            /\ NewPasswordReplacesOld(r.S, u, o, a, a2)
       /\ \A u \in UpdateRequests :
             u.password = NoPassword =>
                \A a \in admins :
                   \E a2 \in Outcome(u).S.admins :
                      a2._id = a._id /\ a2.password = a.password

====
